---- MODULE Spec2Model ----
(***************************************************************************)
(* Model of jsauce's process lifecycle (src/src/jsauce/core.ts):           *)
(* ProcessManager.launch / _launchLocal with the bluebird promise chain    *)
(* sendAndReceive(...).timeout(...).then(register).catch(TimeoutError),    *)
(* ProcessManager.sendMessage / doesOwn / mailboxId / dispose, LocalPid and *)
(* LocalProcess.                                                           *)
(***************************************************************************)
EXTENDS Integers, Sequences, FiniteSets, TLC

\* ------------------------------------------------------------------ bounds
MaxLaunches == 2
MaxDispose == 2

\* --------------------------------------------------------------- constants
DefaultProcessHandshakeTimeout == 1000

Launches == 1..MaxLaunches

\* handshakeTimeout?: number -- Absent stands for an omitted (undefined) field
Absent == -1
TimeoutValues == {Absent, 0, 50}
PTypes == {"local", "remote", "bogus"}

\* Specs a caller can pass to launch(); the optional field only exists on
\* ILocalProcessSpec.
ProcessSpecs ==
    [pType : {"local"}, handshakeTimeout : TimeoutValues]
      \cup [pType : PTypes \ {"local"}, handshakeTimeout : {Absent}]

NoSpec == [pType |-> "none", handshakeTimeout |-> Absent]

\* Reasons a handshake request can be rejected with before the timer of the
\* launch fires: the delegate's onReqHandshake rejects or throws, the transport
\* fails, or the rejection value is itself an instance of Promise.TimeoutError
\* (a delegate or transport that bounds its own work with Promise#timeout).
HandshakeErrors == {"DelegateError", "TransportError", "TimeoutError"}

NoMailbox == 0
PmMailboxId == 1

\* mailbox of a second ProcessManager built on the same exchange
PeerMailboxId == 2
Managers == {PmMailboxId, PeerMailboxId}

\* payloads of sendMessage / send
Data == {"null", "foo"}

NoCall == [mgr |-> NoMailbox, op |-> "none", id |-> NoMailbox, data |-> "null",
           result |-> "none"]

VARIABLES
    procs,          \* ProcessManager._procs : pid id -> process
    pmMailbox,      \* ProcessManager._mailbox (its address)
    mailboxes,      \* addresses the exchange has allocated
    uuidCounter,    \* last identifier UUID.v4() handed out
    launch,         \* per launch call: the promise chain of that call
    disposeCalls,   \* number of completed dispose() calls
    disposeResult,  \* how the last dispose() call ended
    peerProcs,      \* _procs of the second ProcessManager
    call,           \* the latest synchronous call on a manager or pid, its result
    courierSent     \* envelopes that call handed to the manager's courier

vars == <<procs, pmMailbox, mailboxes, uuidCounter, launch, disposeCalls, disposeResult,
          peerProcs, call, courierSent>>

\* -------------------------------------------------------------- operators

\* variant: the generator hands out the same identifier again
UUIDv4_Reused == PmMailboxId + 1

\* UUID.v4(): an identifier never handed out before
UUIDv4 == uuidCounter + 1

\* this._exchange.mailbox(ownerIdentity): the mailbox the exchange hands out.
\* The exchange is a constructor option of the manager; whether id() of its
\* mailboxes equals their ownerIdentity() is up to that exchange.
ExchangeMailbox(ownerIdentity, idAgrees) ==
    [ownerIdentity |-> ownerIdentity,
     id |-> IF idAgrees THEN ownerIdentity ELSE -ownerIdentity]

\* ProcessManager.mailboxId() of manager m
ManagerMailboxId(m) == IF m = PmMailboxId THEN pmMailbox ELSE m

\* this._procs of manager m
ProcsOf(m) == IF m = PmMailboxId THEN procs ELSE peerProcs

\* variant: the pid takes the address of its manager as its id
LocalPid_ManagerId(mailboxId, processManager) ==
    [mailboxId |-> processManager, processManager |-> processManager]

\* LocalPid constructor / LocalPid.id()
LocalPid(mailboxId, processManager) ==
    [mailboxId |-> mailboxId, processManager |-> processManager]

PidId(pid) == pid.mailboxId

\* LocalProcess constructor / LocalProcess.mailboxId(); the courier binds the
\* mailbox to the delegate built for launch l
LocalProcess(id, pmMboxId, mbox, l) ==
    [id |-> id, pmMboxId |-> pmMboxId, mailbox |-> mbox, delegate |-> l]

ProcMailboxId(proc) == proc.mailbox.id

\* mori.assoc(m, k, v)
Assoc(m, k, v) == [x \in DOMAIN m \cup {k} |-> IF x = k THEN v ELSE m[x]]

\* variant: doesOwn asks the exchange whether the mailbox exists
DoesOwn_Allocated(pid) == PidId(pid) \in mailboxes

\* mori.hasKey(this._procs, pid.id())
DoesOwn(pid) == PidId(pid) \in DOMAIN procs

\* spec.handshakeTimeout || this._handshakeTimeout
\* (|| takes the right operand when the left one is undefined or 0)
ResolveTimeout(spec) ==
    IF spec.handshakeTimeout = Absent \/ spec.handshakeTimeout = 0
    THEN DefaultProcessHandshakeTimeout
    ELSE spec.handshakeTimeout

\* variant: the TimeoutError of the timer is rethrown as it is
CatchTimeoutError_Rethrow(err) == err

\* .catch(Promise.TimeoutError, function(err) { throw new HandshakeTimeoutError })
\* the filter matches on the class of the rejection value
CatchTimeoutError(err) ==
    IF err = "TimeoutError" THEN "HandshakeTimeoutError" ELSE err

NoPid == LocalPid(NoMailbox, NoMailbox)

NoProc == LocalProcess(NoMailbox, NoMailbox, ExchangeMailbox(NoMailbox, TRUE), 0)

\* variant: the handshake is sent before the delegate and the process exist
BodySteps_HandshakeFirst(builderThrows) ==
    IF builderThrows
    THEN <<"mailbox", "handshake", "context", "delegateBuilder">>
    ELSE <<"mailbox", "handshake", "context", "delegateBuilder", "pid", "process">>

\* the statements of the then-callback of _launchLocal, in program order, up
\* to the one that throws
BodySteps(builderThrows) ==
    IF builderThrows
    THEN <<"mailbox", "context", "delegateBuilder">>
    ELSE <<"mailbox", "context", "delegateBuilder", "pid", "process", "handshake">>

InitLaunch ==
    [pc |-> "idle", mgr |-> NoMailbox, spec |-> NoSpec, mbox |-> NoMailbox,
     pid |-> NoPid, proc |-> NoProc, steps |-> <<>>,
     built |-> 0, sent |-> 0, hs |-> "none", timer |-> "unset", timerMs |-> 0,
     outcome |-> "pending", first |-> "none"]

Init ==
    /\ procs = <<>>
    /\ pmMailbox = PmMailboxId
    /\ mailboxes = {PmMailboxId}
    /\ uuidCounter = PmMailboxId
    /\ launch = [l \in Launches |-> InitLaunch]
    /\ disposeCalls = 0
    /\ disposeResult = "none"
    /\ peerProcs = <<>>
    /\ call = NoCall
    /\ courierSent = <<>>

Manager == <<procs, pmMailbox>>
Exchange == <<mailboxes, uuidCounter>>
DisposeVars == <<disposeCalls, disposeResult>>
CallVars == <<call, courierSent>>

\* ---------------------------------------------------------------- actions

\* launch(spec): Promise.bind(this).then(...) -- the body runs on a later tick
LaunchCall(l, spec) ==
    /\ launch[l].pc = "idle"
    /\ \A k \in Launches : k < l => launch[k].pc # "idle"
    /\ launch' = [launch EXCEPT ![l].pc = "called", ![l].spec = spec,
                                ![l].mgr = PmMailboxId]
    /\ UNCHANGED <<Manager, Exchange, DisposeVars, peerProcs, CallVars>>

\* variant: every spec is launched as a local one
LaunchDispatch_NoCheck(l) ==
    /\ launch[l].pc = "called"
    /\ launch' = [launch EXCEPT ![l].pc = "launchLocal"]
    /\ UNCHANGED <<procs, pmMailbox, mailboxes, uuidCounter, disposeCalls, disposeResult,
                 peerProcs, call, courierSent>>

\* variant: "remote", the other documented pType, is launched like "local"
LaunchDispatch_RemoteAsLocal(l) ==
    /\ launch[l].pc = "called"
    /\ IF launch[l].spec.pType \in {"local", "remote"}
       THEN launch' = [launch EXCEPT ![l].pc = "launchLocal"]
       ELSE launch' = [launch EXCEPT ![l].pc = "settled",
                                     ![l].outcome = "InvalidProcessSpecType"]
    /\ UNCHANGED <<procs, pmMailbox, mailboxes, uuidCounter, disposeCalls, disposeResult,
                   peerProcs, call, courierSent>>

\* the then-callback of launch: dispatch on spec.pType
LaunchDispatch(l) ==
    /\ launch[l].pc = "called"
    /\ IF launch[l].spec.pType = "local"
       THEN launch' = [launch EXCEPT ![l].pc = "launchLocal"]
       ELSE launch' = [launch EXCEPT ![l].pc = "settled",
                                     ![l].outcome = "InvalidProcessSpecType"]
    /\ UNCHANGED <<Manager, Exchange, DisposeVars, peerProcs, CallVars>>

\* the then-callback of _launchLocal: mailbox, delegate, pid, process, then
\* sendAndReceive(...).timeout(...)
LaunchLocalBody(l, builderThrows, idAgrees) ==
    /\ launch[l].pc = "launchLocal"
    /\ LET mbox == ExchangeMailbox(UUIDv4, idAgrees)
           pid  == LocalPid(mbox.ownerIdentity, launch[l].mgr)
           proc == LocalProcess(PidId(pid), ManagerMailboxId(launch[l].mgr), mbox, l)
       IN  /\ uuidCounter' = mbox.ownerIdentity
           /\ mailboxes' = mailboxes \cup {mbox.ownerIdentity}
           /\ IF builderThrows
              THEN launch' = [launch EXCEPT ![l].pc = "settled",
                                            ![l].mbox = mbox.ownerIdentity,
                                            ![l].built = @ + 1,
                                            ![l].steps = BodySteps(builderThrows),
                                            ![l].outcome = "DelegateBuilderError"]
              ELSE launch' = [launch EXCEPT ![l].pc = "awaiting",
                                            ![l].mbox = mbox.ownerIdentity,
                                            ![l].built = @ + 1,
                                            ![l].pid = pid,
                                            ![l].proc = proc,
                                            ![l].steps = BodySteps(builderThrows),
                                            ![l].sent = @ + 1,
                                            ![l].hs = "pending",
                                            ![l].timer = "armed",
                                            ![l].timerMs = ResolveTimeout(launch[l].spec)]
    /\ UNCHANGED <<Manager, DisposeVars, peerProcs, CallVars>>

\* variant: the success callback returns the pid without the insertion
RegisterProcess_Skip(l) == ProcsOf(launch[l].mgr)

\* the success callback behind .timeout(): register and return the pid
RegisterProcess(l) ==
    Assoc(ProcsOf(launch[l].mgr), PidId(launch[l].pid), launch[l].proc)

\* variant: the pending receive is not abandoned, a late reply still registers
HandshakeReply_NoCancel(l) ==
    /\ launch[l].hs = "pending"
    /\ procs' = (IF launch[l].mgr = PmMailboxId THEN RegisterProcess(l) ELSE procs)
    /\ peerProcs' = (IF launch[l].mgr = PmMailboxId THEN peerProcs ELSE RegisterProcess(l))
    /\ IF launch[l].pc = "awaiting"
       THEN launch' = [launch EXCEPT ![l].hs = "fulfilled",
                                     ![l].first = "reply",
                                     ![l].timer = "cleared",
                                     ![l].outcome = "resolved",
                                     ![l].pc = "settled"]
       ELSE launch' = [launch EXCEPT ![l].hs = "fulfilled"]
    /\ UNCHANGED <<pmMailbox, mailboxes, uuidCounter, disposeCalls, disposeResult,
                   call, courierSent>>

\* variant: every manager registers into one shared table
HandshakeReply_SharedTable(l) ==
    /\ launch[l].hs = "pending"
    /\ IF launch[l].pc = "awaiting"
       THEN /\ procs' = Assoc(procs, PidId(launch[l].pid), launch[l].proc)
            /\ peerProcs' = peerProcs
            /\ launch' = [launch EXCEPT ![l].hs = "fulfilled",
                                        ![l].first = "reply",
                                        ![l].timer = "cleared",
                                        ![l].outcome = "resolved",
                                        ![l].pc = "settled"]
       ELSE /\ UNCHANGED <<procs, peerProcs>>
            /\ launch' = [launch EXCEPT ![l].hs = "fulfilled"]
    /\ UNCHANGED <<pmMailbox, mailboxes, uuidCounter, disposeCalls, disposeResult,
                   call, courierSent>>

\* the handshake reply reaches the manager's courier
HandshakeReply(l) ==
    /\ launch[l].hs = "pending"
    /\ IF launch[l].pc = "awaiting"
       THEN /\ procs' = (IF launch[l].mgr = PmMailboxId
                          THEN RegisterProcess(l) ELSE procs)
            /\ peerProcs' = (IF launch[l].mgr = PmMailboxId
                              THEN peerProcs ELSE RegisterProcess(l))
            /\ launch' = [launch EXCEPT ![l].hs = "fulfilled",
                                        ![l].first = "reply",
                                        ![l].timer = "cleared",
                                        ![l].outcome = "resolved",
                                        ![l].pc = "settled"]
       ELSE /\ UNCHANGED <<procs, peerProcs>>
            /\ launch' = [launch EXCEPT ![l].hs = "fulfilled"]
    /\ UNCHANGED <<pmMailbox, Exchange, DisposeVars, CallVars>>

\* variant: the process is registered although its handshake was rejected
HandshakeFailure_Registers(l, err) ==
    /\ launch[l].hs = "pending"
    /\ launch[l].pc = "awaiting"
    /\ procs' = (IF launch[l].mgr = PmMailboxId THEN RegisterProcess(l) ELSE procs)
    /\ peerProcs' = (IF launch[l].mgr = PmMailboxId THEN peerProcs ELSE RegisterProcess(l))
    /\ launch' = [launch EXCEPT ![l].hs = "rejected",
                                ![l].first = err,
                                ![l].timer = "cleared",
                                ![l].outcome = CatchTimeoutError(err),
                                ![l].pc = "settled"]
    /\ UNCHANGED <<pmMailbox, mailboxes, uuidCounter, disposeCalls, disposeResult,
                   call, courierSent>>

\* the handshake request is rejected (delegate handler or transport)
HandshakeFailure(l, err) ==
    /\ launch[l].hs = "pending"
    /\ IF launch[l].pc = "awaiting"
       THEN launch' = [launch EXCEPT ![l].hs = "rejected",
                                     ![l].first = err,
                                     ![l].timer = "cleared",
                                     ![l].outcome = CatchTimeoutError(err),
                                     ![l].pc = "settled"]
       ELSE launch' = [launch EXCEPT ![l].hs = "rejected"]
    /\ UNCHANGED <<Manager, Exchange, DisposeVars, peerProcs, CallVars>>

\* variant: the timer fires but the promise of the launch is left pending
TimerFires_NoSettle(l) ==
    /\ launch[l].timer = "armed"
    /\ launch[l].pc = "awaiting"
    /\ launch' = [launch EXCEPT ![l].timer = "fired"]
    /\ UNCHANGED <<procs, pmMailbox, mailboxes, uuidCounter, disposeCalls, disposeResult,
                   peerProcs, call, courierSent>>

\* the timer of .timeout(ms) fires while the handshake is still pending
TimerFires(l) ==
    /\ launch[l].timer = "armed"
    /\ launch[l].pc = "awaiting"
    /\ launch' = [launch EXCEPT ![l].timer = "fired",
                                ![l].first = "timeout",
                                ![l].outcome = CatchTimeoutError("TimeoutError"),
                                ![l].pc = "settled"]
    /\ UNCHANGED <<Manager, Exchange, DisposeVars, peerProcs, CallVars>>

\* variant: dispose releases the mailbox and the table, and raises when they
\* were released before
Dispose_ReleaseOnce ==
    /\ disposeCalls < MaxDispose
    /\ disposeCalls' = disposeCalls + 1
    /\ IF pmMailbox = NoMailbox
       THEN /\ disposeResult' = "threw"
            /\ UNCHANGED <<procs, pmMailbox>>
       ELSE /\ disposeResult' = "returned"
            /\ procs' = <<>>
            /\ pmMailbox' = NoMailbox
    /\ UNCHANGED <<mailboxes, uuidCounter, launch, peerProcs, call, courierSent>>

\* dispose(): empty body
Dispose ==
    /\ disposeCalls < MaxDispose
    /\ disposeCalls' = disposeCalls + 1
    /\ disposeResult' = "returned"
    /\ UNCHANGED <<Manager, Exchange, launch, peerProcs, CallVars>>

\* Messages.Message({data: data})
MessageEnvelope(data) == [mType |-> "message", data |-> data]

\* this._courier.send(to, body) on the courier of manager m
CourierSend(m, to, body) == [from |-> ManagerMailboxId(m), to |-> to, body |-> body]

\* the delegates a courier binds to the mailbox with address to
Recipients(to) ==
    {l \in Launches : launch[l].proc # NoProc
                       /\ launch[l].proc.mailbox.ownerIdentity = to}

\* variant: sendMessage validates ownership first and drops the message for
\* an id that is not in the table
SendMessage_OwnedOnly(m, processMailboxId, data) ==
    /\ courierSent' = IF processMailboxId \in DOMAIN ProcsOf(m)
                      THEN <<CourierSend(m, processMailboxId, MessageEnvelope(data))>>
                      ELSE <<>>
    /\ call' = [mgr |-> m, op |-> "sendMessage", id |-> processMailboxId,
                data |-> data, result |-> "returned"]
    /\ UNCHANGED <<procs, pmMailbox, mailboxes, uuidCounter, launch, disposeCalls,
                   disposeResult, peerProcs>>

\* sendMessage(processMailboxId, data) on manager m
SendMessage(m, processMailboxId, data) ==
    /\ courierSent' = <<CourierSend(m, processMailboxId, MessageEnvelope(data))>>
    /\ call' = [mgr |-> m, op |-> "sendMessage", id |-> processMailboxId,
                data |-> data, result |-> "returned"]
    /\ UNCHANGED <<Manager, Exchange, launch, DisposeVars, peerProcs>>

\* variant: the pid addresses the mailbox of its manager instead of its own
PidSend_ToManager(l, data) ==
    /\ launch[l].outcome = "resolved"
    /\ LET pid == launch[l].pid
       IN  /\ courierSent' = <<CourierSend(pid.processManager,
                                           ManagerMailboxId(pid.processManager),
                                           MessageEnvelope(data))>>
           /\ call' = [mgr |-> pid.processManager, op |-> "send", id |-> PidId(pid),
                       data |-> data, result |-> "returned"]
    /\ UNCHANGED <<procs, pmMailbox, mailboxes, uuidCounter, launch, disposeCalls,
                   disposeResult, peerProcs>>

\* pid.send(data) on the pid a resolved launch returned:
\* this._processManager.sendMessage(this._mailboxId, data)
PidSend(l, data) ==
    /\ launch[l].outcome = "resolved"
    /\ LET pid == launch[l].pid
       IN  /\ courierSent' = <<CourierSend(pid.processManager, pid.mailboxId,
                                           MessageEnvelope(data))>>
           /\ call' = [mgr |-> pid.processManager, op |-> "send", id |-> PidId(pid),
                       data |-> data, result |-> "returned"]
    /\ UNCHANGED <<Manager, Exchange, launch, DisposeVars, peerProcs>>

\* doesOwn(pid) on manager m, for a pid whose id() is id
DoesOwnCall(m, id) ==
    /\ LET pid == LocalPid(id, m)
           owns == IF m = PmMailboxId THEN DoesOwn(pid)
                                      ELSE PidId(pid) \in DOMAIN ProcsOf(m)
       IN  call' = [mgr |-> m, op |-> "doesOwn", id |-> id, data |-> "null",
                    result |-> IF owns THEN "true" ELSE "false"]
    /\ courierSent' = <<>>
    /\ UNCHANGED <<Manager, Exchange, launch, DisposeVars, peerProcs>>

\* mailboxId() on manager m
MailboxIdCall(m) ==
    /\ call' = [mgr |-> m, op |-> "mailboxId", id |-> ManagerMailboxId(m),
                data |-> "null", result |-> "returned"]
    /\ courierSent' = <<>>
    /\ UNCHANGED <<Manager, Exchange, launch, DisposeVars, peerProcs>>

\* launch(spec) on the second manager
PeerLaunchCall(l, spec) ==
    /\ launch[l].pc = "idle"
    /\ \A k \in Launches : k < l => launch[k].pc # "idle"
    /\ launch' = [launch EXCEPT ![l].pc = "called", ![l].spec = spec,
                                ![l].mgr = PeerMailboxId]
    /\ UNCHANGED <<Manager, Exchange, DisposeVars, peerProcs, CallVars>>

\* dispose() on the second manager: empty body
PeerDispose ==
    /\ call' = [mgr |-> PeerMailboxId, op |-> "dispose", id |-> NoMailbox,
                data |-> "null", result |-> "returned"]
    /\ courierSent' = <<>>
    /\ UNCHANGED <<Manager, Exchange, launch, DisposeVars, peerProcs>>

Next ==
    \/ \E l \in Launches, spec \in ProcessSpecs : LaunchCall(l, spec)
    \/ \E l \in Launches : LaunchDispatch(l)
    \/ \E l \in Launches, builderThrows \in BOOLEAN : LaunchLocalBody(l, builderThrows, TRUE)
    \/ \E l \in Launches : HandshakeReply(l)
    \/ \E l \in Launches, err \in HandshakeErrors : HandshakeFailure(l, err)
    \/ \E l \in Launches : TimerFires(l)
    \/ Dispose

Spec == Init /\ [][Next]_vars

\* ---- one manager with its synchronous operations

\* the timeout value and the pType check play no part in these operations
OpsSpecs == [pType : {"local"}, handshakeTimeout : {Absent}]

\* ids a caller can pass: the manager's mailbox, the mailbox of every launch,
\* and one the exchange never allocated
CallerIds == PmMailboxId..(PmMailboxId + MaxLaunches + 1)

NextOps ==
    \/ \E l \in Launches, spec \in OpsSpecs : LaunchCall(l, spec)
    \/ \E l \in Launches : LaunchDispatch(l)
    \/ \E l \in Launches : LaunchLocalBody(l, FALSE, TRUE)
    \/ \E l \in Launches : HandshakeReply(l)
    \/ \E l \in Launches : HandshakeFailure(l, "DelegateError")
    \/ \E l \in Launches : TimerFires(l)
    \/ Dispose
    \/ \E id \in CallerIds, data \in Data : SendMessage(PmMailboxId, id, data)
    \/ \E l \in Launches, data \in Data : PidSend(l, data)
    \/ \E id \in CallerIds : DoesOwnCall(PmMailboxId, id)
    \/ MailboxIdCall(PmMailboxId)

SpecOps == Init /\ [][NextOps]_vars

\* ---- two managers on one exchange

\* both constructors have run: each manager holds its own mailbox
InitManagers ==
    /\ procs = <<>>
    /\ pmMailbox = PmMailboxId
    /\ mailboxes = Managers
    /\ uuidCounter = PeerMailboxId
    /\ launch = [l \in Launches |-> InitLaunch]
    /\ disposeCalls = 0
    /\ disposeResult = "none"
    /\ peerProcs = <<>>
    /\ call = NoCall
    /\ courierSent = <<>>

\* launches alternate between the two managers
OwnLaunches == {l \in Launches : l % 2 = 1}
PeerLaunches == {l \in Launches : l % 2 = 0}

NextManagers ==
    \/ \E l \in OwnLaunches, spec \in OpsSpecs : LaunchCall(l, spec)
    \/ \E l \in PeerLaunches, spec \in OpsSpecs : PeerLaunchCall(l, spec)
    \/ \E l \in Launches : LaunchDispatch(l)
    \/ \E l \in Launches : LaunchLocalBody(l, FALSE, TRUE)
    \/ \E l \in Launches : HandshakeReply(l)
    \/ \E l \in Launches : HandshakeFailure(l, "DelegateError")
    \/ \E l \in Launches : TimerFires(l)
    \/ Dispose
    \/ PeerDispose
    \/ \E m \in Managers, id \in mailboxes : SendMessage(m, id, "foo")
    \/ \E l \in Launches : PidSend(l, "foo")
    \/ \E m \in Managers, id \in mailboxes : DoesOwnCall(m, id)
    \/ \E m \in Managers : MailboxIdCall(m)

SpecManagers == InitManagers /\ [][NextManagers]_vars

\* ------------------------------------------------------------- properties

Addresses == 0..(PeerMailboxId + MaxLaunches)

Settled(l) == launch[l].pc = "settled"

\* the step in which the promise of launch l settles
Resolves(l) == launch[l].pc # "settled" /\ launch'[l].pc = "settled"

\* a dispose() call completes in this step
DisposeStep == disposeCalls' # disposeCalls

\* C1: the process table holds key k exactly when some launch allocated the
\* mailbox with address k and its handshake reply arrived before its timeout
\* fired or its handshake failed; never earlier, never for a failed launch.
C1_RegisteredIffHandshakeSucceeded ==
    /\ DOMAIN procs \subseteq Addresses
    /\ \A k \in Addresses :
          k \in DOMAIN procs <=>
             \E l \in Launches : launch[l].mbox = k /\ launch[l].first = "reply"

C1_Witness ==
    \E l1, l2 \in Launches :
        /\ launch[l1].first = "reply" /\ launch[l1].mbox \in DOMAIN procs
        /\ launch[l2].first \in {"timeout"} \cup HandshakeErrors
        /\ launch[l2].hs # "pending"
        /\ launch[l2].mbox \notin DOMAIN procs

\* C2: when the promise of launch settles it carries a PID exactly when
\* the table holds an entry under pid.id() at that instant, that entry is the
\* process of this launch, and a caller never holds a PID the table lacks.
C2_PidIffRegistered ==
    /\ [](\A l \in Launches :
            (Settled(l) /\ launch[l].outcome = "resolved")
               => DoesOwn(launch[l].pid))
    /\ [][\A l \in Launches :
            Resolves(l) =>
              /\ (launch'[l].outcome = "resolved")
                    <=> (PidId(launch'[l].pid) \in DOMAIN procs')
              /\ launch'[l].outcome = "resolved" =>
                    /\ Cardinality({k \in DOMAIN procs' : k = PidId(launch'[l].pid)}) = 1
                    /\ procs'[PidId(launch'[l].pid)].delegate = l]_vars

C2_Witness ==
    \E l \in Launches :
        /\ Settled(l) /\ launch[l].outcome = "resolved"
        /\ DoesOwn(launch[l].pid)

\* C3: when the timer of a launch fires with no reply received, the launch
\* fails with HandshakeTimeoutError, the table is untouched by that step, and
\* the mailbox of that launch is never a key of the table.
C3_TimeoutFailsUnregistered ==
    /\ [](\A l \in Launches :
            (launch[l].first = "timeout" /\ launch[l].hs = "pending") =>
               /\ launch[l].outcome = "HandshakeTimeoutError"
               /\ ~DoesOwn(launch[l].pid)
               /\ launch[l].mbox \notin DOMAIN procs)
    /\ [][\A l \in Launches :
            (launch[l].first = "none" /\ launch'[l].first = "timeout") =>
               /\ launch'[l].outcome = "HandshakeTimeoutError"
               /\ procs' = procs]_vars

C3_Witness ==
    \E l1, l2 \in Launches :
        /\ launch[l1].first = "timeout" /\ launch[l1].hs = "pending"
        /\ launch[l1].pc = "settled"
        /\ launch[l2].first = "reply"

\* C4: a handshake reply that arrives after the timeout of its launch fired
\* changes neither the table nor the outcome of that launch: the intended
\* pid is never owned and the launch stays rejected.
C4_LateReplyIgnored ==
    /\ [](\A l \in Launches :
            (launch[l].first = "timeout" /\ launch[l].hs = "fulfilled") =>
               /\ ~DoesOwn(launch[l].pid)
               /\ launch[l].outcome = "HandshakeTimeoutError")
    /\ [][\A l \in Launches :
            (launch[l].first = "timeout" /\ launch[l].hs = "pending"
                /\ launch'[l].hs = "fulfilled") =>
               /\ procs' = procs
               /\ launch'[l].outcome = launch[l].outcome
               /\ launch'[l].pc = launch[l].pc]_vars

C4_Witness ==
    \E l \in Launches :
        /\ launch[l].first = "timeout" /\ launch[l].hs = "fulfilled"
        /\ launch[l].pc = "settled"
        /\ DOMAIN procs # {}

\* C5: a launch whose pType is not "local" fails with InvalidProcessSpecType
\* and leaves nothing behind: no mailbox, no delegate built, no handshake, no
\* timer, no table change; every allocated mailbox belongs to a local launch.
C5_InvalidSpecNoPartialState ==
    /\ [](\A l \in Launches :
            launch[l].spec.pType \notin {"local", "none"} =>
               /\ launch[l].outcome \in {"pending", "InvalidProcessSpecType"}
               /\ Settled(l) => launch[l].outcome = "InvalidProcessSpecType"
               /\ launch[l].mbox = NoMailbox
               /\ launch[l].built = 0
               /\ launch[l].sent = 0
               /\ launch[l].hs = "none"
               /\ launch[l].timer = "unset")
    /\ [](mailboxes = {PmMailboxId} \cup
            {launch[l].mbox : l \in {k \in Launches : launch[k].spec.pType = "local"
                                                     /\ launch[k].mbox # NoMailbox}})
    /\ [][\A l \in Launches :
            (launch[l].spec.pType \notin {"local", "none"}
                /\ launch'[l].pc # launch[l].pc) =>
               /\ procs' = procs
               /\ mailboxes' = mailboxes
               /\ uuidCounter' = uuidCounter]_vars

C5_Witness ==
    \E l1, l2 \in Launches :
        /\ launch[l1].spec.pType = "remote" /\ launch[l1].pc = "settled"
        /\ launch[l1].outcome = "InvalidProcessSpecType"
        /\ launch[l2].spec.pType = "bogus" /\ launch[l2].pc = "settled"

\* C6: a handshake that fails for a reason other than the timer of the launch
\* makes launch fail with exactly that failure, with no retry and no table
\* change.
C6_FailurePropagatesUnmodified ==
    \A l \in Launches :
        launch[l].first \in HandshakeErrors =>
            /\ launch[l].outcome = launch[l].first
            /\ launch[l].sent = 1
            /\ launch[l].mbox \notin DOMAIN procs

\* C7: with several launches in flight every launch has its own mailbox, each
\* launch whose handshake succeeded is registered under its own key with its
\* own process, and every entry belongs to the launch that owns the key.
C7_ConcurrentLaunchesDoNotCollide ==
    /\ \A l1, l2 \in Launches :
          (l1 # l2 /\ launch[l1].mbox # NoMailbox /\ launch[l2].mbox # NoMailbox)
             => launch[l1].mbox # launch[l2].mbox
    /\ \A l \in Launches :
          launch[l].first = "reply" =>
             /\ launch[l].mbox \in DOMAIN procs
             /\ procs[launch[l].mbox].delegate = l
             /\ procs[launch[l].mbox].id = PidId(launch[l].pid)
    /\ \A k \in DOMAIN procs :
          /\ procs[k].delegate \in Launches
          /\ launch[procs[k].delegate].mbox = k
          /\ launch[procs[k].delegate].first = "reply"

C7_Witness ==
    \E l1, l2 \in Launches :
        /\ l1 # l2
        /\ launch[l1].first = "reply" /\ launch[l2].first = "reply"
        /\ {launch[l1].mbox, launch[l2].mbox} \subseteq DOMAIN procs
        /\ Cardinality(DOMAIN procs) >= 2

\* C8: the handshake wait is bounded by spec.handshakeTimeout whenever the
\* spec supplies one (0 included), else by the default of 1000.
C8_TimeoutIsSpecValueIfSupplied ==
    \A l \in Launches :
        launch[l].timer # "unset" =>
            launch[l].timerMs =
                IF launch[l].spec.handshakeTimeout # Absent
                THEN launch[l].spec.handshakeTimeout
                ELSE DefaultProcessHandshakeTimeout

\* C9: when dispose() returns the process table is empty and the manager no
\* longer holds its mailbox.
C9_DisposeReleases ==
    [][DisposeStep => (DOMAIN procs' = {} /\ pmMailbox' = NoMailbox)]_vars

\* C10: no dispose() call raises, in any state, and the second and later
\* calls leave the state as the first call left it.
C10_DisposeIdempotent ==
    [][DisposeStep =>
         /\ disposeResult' = "returned"
         /\ disposeCalls >= 1 =>
               <<procs, pmMailbox, mailboxes, uuidCounter, launch>>'
                  = <<procs, pmMailbox, mailboxes, uuidCounter, launch>>]_vars

C10_Witness ==
    /\ disposeCalls >= 2
    /\ disposeResult = "returned"
    /\ \E l1, l2 \in Launches :
          launch[l1].first = "reply" /\ launch[l2].pc = "awaiting"

\* a synchronous call named op completes in this step
CallStep(op) == call'.op = op /\ <<call, courierSent>>' # <<call, courierSent>>

\* everything but the record of the latest call
ProgramState == <<procs, pmMailbox, mailboxes, uuidCounter, launch, disposeCalls,
                  disposeResult, peerProcs>>

\* C11: after dispose() of the owning manager, pid.send(data) fails with a
\* manager-disposed error and hands no message to the transport.
C11_SendAfterDisposeFails ==
    [][(CallStep("send") /\ disposeCalls >= 1) =>
          /\ call'.result = "ManagerDisposedError"
          /\ courierSent' = <<>>]_vars

\* C12: sendMessage(targetId, data) hands exactly one message envelope with
\* that data, addressed to targetId, to the transport, whatever targetId is;
\* it returns normally and changes neither the table nor any launch.
C12_SendMessageBestEffort ==
    [][CallStep("sendMessage") =>
          /\ Len(courierSent') = 1
          /\ courierSent'[1].to = call'.id
          /\ courierSent'[1].body = [mType |-> "message", data |-> call'.data]
          /\ call'.result = "returned"
          /\ ProgramState' = ProgramState]_vars

C12_Witness ==
    /\ call.op = "sendMessage"
    /\ Len(courierSent) = 1
    /\ call.id \notin DOMAIN procs
    /\ \E l1, l2 \in Launches :
          /\ launch[l1].first = "timeout" /\ launch[l1].mbox = call.id
          /\ launch[l2].first = "reply"

\* C13: pid.send(data) on the pid of a resolved launch hands one message
\* envelope with that data to the courier of the launching manager, addressed
\* to the mailbox of the launched process, whose courier binds the delegate of
\* that launch and no other; the table is unchanged.
C13_PidSendIsSendMessage ==
    [][CallStep("send") =>
          \E l \in Launches :
             /\ launch[l].outcome = "resolved"
             /\ call'.id = PidId(launch[l].pid)
             /\ call'.mgr = launch[l].mgr
             /\ courierSent' =
                   <<[from |-> ManagerMailboxId(launch[l].mgr),
                      to |-> launch[l].mbox,
                      body |-> [mType |-> "message", data |-> call'.data]]>>
             /\ Recipients(courierSent'[1].to) = {l}
             /\ ProgramState' = ProgramState]_vars

C13_Witness ==
    /\ call.op = "send"
    /\ Len(courierSent) = 1
    /\ \E l1, l2 \in Launches :
          /\ l1 # l2
          /\ launch[l1].first = "reply" /\ launch[l2].first = "reply"
          /\ courierSent[1].to = launch[l2].mbox
          /\ Recipients(courierSent[1].to) = {l2}

\* C14: the id of a constructed pid never changes, whatever happens later,
\* and the pids of two distinct launches have different ids, whether the
\* launches succeed or fail.
C14_PidIdentityStableUnique ==
    /\ [](\A l1, l2 \in Launches :
            (l1 # l2 /\ launch[l1].hs # "none" /\ launch[l2].hs # "none")
               => PidId(launch[l1].pid) # PidId(launch[l2].pid))
    /\ [][\A l \in Launches :
            launch[l].hs # "none" =>
               PidId(launch'[l].pid) = PidId(launch[l].pid)]_vars

C14_Witness ==
    /\ disposeCalls >= 1
    /\ call.op = "send"
    /\ \E l1, l2 \in Launches :
          /\ launch[l1].first = "reply"
          /\ launch[l2].first \in {"timeout", "DelegateError"}
          /\ PidId(launch[l1].pid) # PidId(launch[l2].pid)

\* C15: doesOwn(pid) returns true exactly when pid.id() is a key of the
\* table when it is called, hands nothing to the transport and changes
\* nothing.
C15_DoesOwnPureLookup ==
    [][CallStep("doesOwn") =>
          /\ (call'.result = "true") <=> (call'.id \in DOMAIN procs)
          /\ call'.result \in {"true", "false"}
          /\ courierSent' = <<>>
          /\ ProgramState' = ProgramState]_vars

C15_Witness ==
    /\ call.op = "doesOwn"
    /\ call.result = "false"
    /\ DOMAIN procs # {}
    /\ \E l \in Launches : launch[l].mbox = call.id /\ launch[l].pc = "awaiting"

\* the table of manager m changed from old to new by the success step of one
\* of m's own launches, which added exactly its own new key
TableChangeOk(old, new, m) ==
    old # new =>
       \E l \in Launches :
          /\ launch[l].mgr = m
          /\ launch[l].pc = "awaiting" /\ launch[l].first = "none"
          /\ launch'[l].first = "reply"
          /\ PidId(launch[l].pid) \notin DOMAIN old
          /\ DOMAIN new = DOMAIN old \cup {PidId(launch[l].pid)}
          /\ \A k \in DOMAIN old : new[k] = old[k]

LaunchFairness ==
    \A l \in Launches :
        /\ WF_vars(LaunchDispatch(l))
        /\ WF_vars(\E builderThrows \in BOOLEAN : LaunchLocalBody(l, builderThrows, TRUE))
        /\ WF_vars(TimerFires(l))

\* The liveness check draws launches of every process type with the default
\* timeout: the timer's duration does not change which steps are enabled.
LiveSpecs == [pType : PTypes, handshakeTimeout : {Absent}]

NextLive ==
    \/ \E l \in Launches, spec \in LiveSpecs : LaunchCall(l, spec)
    \/ \E l \in Launches : LaunchDispatch(l)
    \/ \E l \in Launches, builderThrows \in BOOLEAN : LaunchLocalBody(l, builderThrows, TRUE)
    \/ \E l \in Launches : HandshakeReply(l)
    \/ \E l \in Launches, err \in {"TransportError", "TimeoutError"} : HandshakeFailure(l, err)
    \/ \E l \in Launches : TimerFires(l)
    \/ Dispose

SpecLive == Init /\ [][NextLive]_vars /\ LaunchFairness

\* C17: with the timer firing when due every launch call settles, it is
\* pending after the handshake was sent only while its timer has not fired,
\* and once settled its outcome never changes.
C17_LaunchSettlesExactlyOnce ==
    /\ \A l \in Launches : (launch[l].pc = "called") ~> (launch[l].pc = "settled")
    /\ [](\A l \in Launches :
            /\ (launch[l].pc = "settled") <=> (launch[l].outcome # "pending")
            /\ launch[l].pc = "awaiting" => launch[l].timer = "armed"
            /\ launch[l].timer = "fired" => launch[l].pc = "settled")
    /\ [][\A l \in Launches :
            launch[l].outcome # "pending" =>
               /\ launch'[l].outcome = launch[l].outcome
               /\ launch'[l].pc = "settled"]_vars

C17_Witness ==
    \E l1, l2 \in Launches :
        /\ launch[l1].outcome = "resolved" /\ launch[l1].pc = "settled"
        /\ launch[l2].outcome = "HandshakeTimeoutError" /\ launch[l2].hs = "fulfilled"

IsPrefix(s, t) == Len(s) <= Len(t) /\ \A i \in 1..Len(s) : s[i] = t[i]

\* C18: a local launch allocates its mailbox, builds the delegate with a new
\* context, constructs the pid, constructs the process, and only then sends
\* the handshake, each step at most once; the handshake goes to a mailbox with
\* the delegate bound and is not sent again after a failure.
C18_LaunchStepOrder ==
    \A l \in Launches :
        /\ IsPrefix(launch[l].steps,
                    <<"mailbox", "context", "delegateBuilder", "pid", "process", "handshake">>)
        /\ launch[l].built <= 1
        /\ launch[l].sent <= 1
        /\ (launch[l].sent = 1) <=> (Len(launch[l].steps) = 6)
        /\ launch[l].sent = 1 =>
              /\ launch[l].built = 1
              /\ launch[l].proc # NoProc
              /\ launch[l].proc.delegate = l
              /\ launch[l].proc.mailbox.ownerIdentity = launch[l].mbox
              /\ PidId(launch[l].pid) = launch[l].mbox

C18_Witness ==
    \E l1, l2 \in Launches :
        /\ launch[l1].first \in HandshakeErrors /\ launch[l1].sent = 1
        /\ Len(launch[l1].steps) = 6
        /\ launch[l2].outcome = "DelegateBuilderError" /\ launch[l2].sent = 0

\* ---- an exchange whose mailboxes need not report id() = ownerIdentity()
NextExchange ==
    \/ \E l \in Launches, spec \in ProcessSpecs : LaunchCall(l, spec)
    \/ \E l \in Launches : LaunchDispatch(l)
    \/ \E l \in Launches, builderThrows \in BOOLEAN, idAgrees \in BOOLEAN :
          LaunchLocalBody(l, builderThrows, idAgrees)
    \/ \E l \in Launches : HandshakeReply(l)
    \/ \E l \in Launches, err \in HandshakeErrors : HandshakeFailure(l, err)
    \/ \E l \in Launches : TimerFires(l)
    \/ Dispose

SpecExchange == Init /\ [][NextExchange]_vars

\* C19: the pid of a launch holds the address its process reports as
\* mailboxId(), every table entry under key k is a process whose mailboxId()
\* is k, and a launch where the two differ never registers.
C19_PidAndProcessAgree ==
    /\ \A k \in DOMAIN procs : ProcMailboxId(procs[k]) = k
    /\ \A l \in Launches :
          launch[l].first = "reply" =>
             PidId(launch[l].pid) = ProcMailboxId(launch[l].proc)

\* C20 as stated: a launch with an unrecognized pType is never pending, it
\* has failed by the time the call returns.
C20_RaisedSynchronously ==
    \A l \in Launches :
        launch[l].spec.pType \notin {"local", "none"} => launch[l].pc # "called"

\* C20: a launch with an unrecognized pType is pending from the call until
\* the first callback of its promise runs; that callback, the only step the
\* launch ever takes, rejects it with InvalidProcessSpecType and changes
\* nothing else.
C20_RejectedInFirstCallback ==
    /\ [](\A l \in Launches :
            launch[l].spec.pType \notin {"local", "none"} =>
               /\ launch[l].pc \in {"called", "settled"}
               /\ (launch[l].pc = "called") <=> (launch[l].outcome = "pending"))
    /\ [][\A l \in Launches :
            (launch[l].spec.pType \notin {"local", "none"}
                /\ launch'[l] # launch[l]) =>
               /\ launch[l].pc = "called"
               /\ launch'[l] = [launch[l] EXCEPT !.pc = "settled",
                                                 !.outcome = "InvalidProcessSpecType"]
               /\ <<procs, pmMailbox, mailboxes, uuidCounter>>'
                     = <<procs, pmMailbox, mailboxes, uuidCounter>>]_vars

C20_Witness ==
    \E l1, l2 \in Launches :
        /\ l1 < l2
        /\ launch[l1].spec.pType = "remote" /\ launch[l1].pc = "called"
        /\ launch[l2].first = "reply"
        /\ disposeCalls >= 1

====
